---- MODULE Spec2Model ----
(***************************************************************************)
(* A model of smallsh (src/smallsh.c): the interactive loop shell(), the   *)
(* parser parseInput(), the built-ins, the executor otherCommands(), the   *)
(* per-cycle polling of background PIDs, the SIGTSTP handler, and the      *)
(* operating system's side of it: the children, their termination, and    *)
(* the delivery of SIGINT and SIGTSTP.                                     *)
(*                                                                         *)
(* The shell is one sequential process whose position is pc; it is cut     *)
(* into steps at the points where a signal or a child may be observed to   *)
(* act in between.  Signals and children run as separate actions.          *)
(***************************************************************************)
EXTENDS Integers, Sequences, FiniteSets, TLC

\* ---------------------------------------------------------------- bounds
MaxPid == 2          \* process identifiers are 1..MaxPid (the OS reuses them)
MaxBg == 1           \* background launches modelled over the run (pidCount cap)
MaxExitCode == 2     \* exit codes are 0..MaxExitCode (stands for 0..255)
MaxTokens == 4       \* longest line of the parser's own specification
MaxChars == 5        \* longest line of the "$$" section's own specification

\* ------------------------------------------------------------- constants
SIGINT == 2
SIGKILL == 9
TableSize == 500             \* the entries of backgroundPids

NULL == "NULL"
BAD == "-1"                  \* a descriptor value of -1
GARB == "garbage"            \* an uninitialised descriptor value other than -1
IGN == "SIG_IGN"
DFL == "SIG_DFL"
HANDLER == "handle_SIGTSTP"

Pids == 1..MaxPid
ExitCodes == 0..MaxExitCode
Signals == {SIGINT, SIGKILL}

\* A wait status as waitpid() stores it: a normal exit with a code, or a
\* termination by a signal.
Exited(n) == [kind |-> "exit", val |-> n]
Signaled(s) == [kind |-> "sig", val |-> s]
NoWs == [kind |-> "none", val |-> 0]
WIFSIGNALED(ws) == ws.kind = "sig"
WTERMSIG(ws) == ws.val
WEXITSTATUS(ws) == ws.val

\* ------------------------------------------------------------ input lines
\* A line is the sequence of its space-separated tokens.  "ls" stands for
\* any external program, "a" and "f" for ordinary words, "#" for a token
\* that starts with the comment character.
Lines ==
  { <<"#">>, <<"status">>, <<"exit">>, <<"cd">>, <<"cd", "a">>,
    <<"ls">>, <<"ls", "&">>, <<"ls", "<", "f">>, <<"ls", ">", "f">>,
    <<"ls", "<", "f", ">", "f">>, <<"ls", "<", "f", "&">>,
    <<"ls", "<", "&">> }

Alphabet == {"ls", "a", "<", ">", "&"}
AllLines == UNION { [1..n -> Alphabet] : n \in 1..MaxTokens }

\* The lines of the "$$" section, as sequences of characters: "a" and "b"
\* stand for any characters other than '$'.
Characters == {"a", "b", "$"}
CharLines == UNION { [1..n -> Characters] : n \in 1..MaxChars }

\* The decimal digits of getpid(), as sprintf writes them into pidString.
PidStrings == { <<"7">>, <<"4", "2">> }

\* No line has been through the "$$" section.  The lines of Lines and
\* AllLines hold no '$': for them the section copies the line unchanged.
NoExpansion == [inputCopy |-> << >>, pidString |-> << >>, inputPID |-> << >>,
                kind |-> "none"]

\* struct command
NoCmd == [command |-> NULL, arguments |-> <<>>, inputFile |-> NULL,
          outputFile |-> NULL, ampersand |-> 0]

VARIABLES
  foreground,      \* the global flag: 1 in foreground-only mode
  status,          \* processes->status
  signal,          \* processes->signal
  backgroundPids,  \* processes->backgroundPids[0 .. pidCount-1]
  pidCount,        \* processes->pidCount
  sigintDisp,      \* the shell's disposition of SIGINT
  sigtstpDisp,     \* the shell's disposition of SIGTSTP
  pc,              \* the shell's position
  line,            \* input: the line of this cycle, as tokens
  cmd,             \* currentCommand
  loop,            \* shell()'s loop flag, the return value of parseInput
  sourceFD,        \* otherCommands' local
  targetFD,        \* otherCommands' local
  newPid,          \* otherCommands' local
  procs,           \* the OS's process table for the shell's children
  out,             \* the lines the shell's last step printed (stdio),
                   \* the prompt aside
  lastFg,          \* history: the wait status of the foreground command of
                   \* the previous cycle, while the polling loop has
                   \* observed nothing since
  expansion        \* parseInput's locals of the "$$" section, character by
                   \* character: inputCopy as first copied, pidString, and
                   \* inputPID with the way the loop ended

vars == <<foreground, status, signal, backgroundPids, pidCount, sigintDisp,
          sigtstpDisp, pc, line, cmd, loop, sourceFD, targetFD, newPid, procs,
          out, lastFg, expansion>>

shellVars == <<foreground, status, signal, backgroundPids, pidCount,
               sigintDisp, sigtstpDisp, pc, line, cmd, loop, sourceFD,
               targetFD, newPid>>

\* A slot of the process table.  state: "free" (no such child: never
\* created, or already waited for), "running" (image replaced), "loop" (the
\* child returned from otherCommands into the interactive loop), "zombie"
\* (terminated, not yet waited for).  sigint is the child's disposition of
\* SIGINT, ws its wait status once it is a zombie.
NoProc == [state |-> "free", sigint |-> IGN, ws |-> NoWs]

Zombie(ws) == [state |-> "zombie", sigint |-> IGN, ws |-> ws]

\* The foreground child is the one the shell is blocked on.
IsForeground(p) == pc = "wait" /\ newPid = p

\* ------------------------------------------------------------ parseInput
\* A token that starts with '#' (parseInput, the comment test).
IsComment(tok) == tok = "#"

\* ParseTokens without the test of the global flag.
RECURSIVE ParseTokensNoFlag(_, _, _, _)
ParseTokensNoFlag(toks, k, rec, fg) ==
  IF k > Len(toks) THEN rec
  ELSE IF toks[k] = "<" THEN
    IF k + 1 > Len(toks) THEN rec
    ELSE ParseTokensNoFlag(toks, k + 2,
                           [rec EXCEPT !.inputFile = toks[k + 1]], fg)
  ELSE IF toks[k] = ">" THEN
    IF k + 1 > Len(toks) THEN rec
    ELSE ParseTokensNoFlag(toks, k + 2,
                           [rec EXCEPT !.outputFile = toks[k + 1]], fg)
  ELSE IF toks[k] = "&" THEN
    IF k + 1 > Len(toks)
    THEN [rec EXCEPT !.ampersand = 1]
    ELSE ParseTokensNoFlag(toks, k + 1, rec, fg)
  ELSE ParseTokensNoFlag(toks, k + 1,
                         [rec EXCEPT !.arguments = Append(@, toks[k])], fg)

\* The tokenizing loop of parseInput: k is the position of the current
\* token, rec the command built so far, fg the value of the global flag.
RECURSIVE ParseTokens(_, _, _, _)
ParseTokens(toks, k, rec, fg) ==
  IF k > Len(toks) THEN rec
  ELSE IF toks[k] = "<" THEN
    IF k + 1 > Len(toks) THEN rec
    ELSE ParseTokens(toks, k + 2, [rec EXCEPT !.inputFile = toks[k + 1]], fg)
  ELSE IF toks[k] = ">" THEN
    IF k + 1 > Len(toks) THEN rec
    ELSE ParseTokens(toks, k + 2, [rec EXCEPT !.outputFile = toks[k + 1]], fg)
  ELSE IF toks[k] = "&" THEN
    IF k + 1 > Len(toks)
    THEN (IF fg = 0 THEN [rec EXCEPT !.ampersand = 1] ELSE rec)
    ELSE ParseTokens(toks, k + 1, rec, fg)
  ELSE ParseTokens(toks, k + 1,
                   [rec EXCEPT !.arguments = Append(@, toks[k])], fg)

\* strlen(NULL): a "<" or ">" that is the last token makes the loop
\* dereference the null token.
RECURSIVE ParseCrashes(_, _)
ParseCrashes(toks, k) ==
  IF k > Len(toks) THEN FALSE
  ELSE IF toks[k] \in {"<", ">"} THEN
    IF k + 1 > Len(toks) THEN TRUE ELSE ParseCrashes(toks, k + 2)
  ELSE ParseCrashes(toks, k + 1)

\* The command parseInput builds from a line that is neither empty nor a
\* comment.  The unset fields of the malloc'ed struct are taken as null.
ParseInput(toks, fg) ==
  ParseTokens(toks, 2,
              [NoCmd EXCEPT !.command = toks[1], !.arguments = <<toks[1]>>],
              fg)

\* ---------------------------------------------- parseInput, "$$" section
\* strstr(s, "$$"): the position of the first "$$" in s, 0 for none.
Strstr(s) ==
  LET found == {i \in 1..(Len(s) - 1) : s[i] = "$" /\ s[i + 1] = "$"}
  IN IF found = {} THEN 0 ELSE CHOOSE i \in found : \A j \in found : i <= j

\* strtok(s, "$$"), a first call: the second argument is the SET of
\* delimiters, here the one character '$'.  Leading delimiters are skipped;
\* the token runs up to the next delimiter, which is overwritten by the
\* terminator, so that s, read from its start, ends there.  With nothing
\* but delimiters in s the result is the null pointer and s is unchanged.
Strtok(s) ==
  LET rest == {i \in 1..Len(s) : s[i] # "$"}
      b == IF rest = {} THEN Len(s) + 1
           ELSE CHOOSE i \in rest : \A j \in rest : i <= j
      ends == {i \in b..Len(s) : s[i] = "$"}
      e == IF ends = {} THEN Len(s) + 1
           ELSE CHOOSE i \in ends : \A j \in ends : i <= j
  IN [null |-> b > Len(s),
      token |-> IF b > Len(s) THEN << >> ELSE SubSeq(s, b, e - 1),
      str |-> IF b > Len(s) \/ e > Len(s) THEN s ELSE SubSeq(s, 1, e - 1)]

\* The while loop of the section: copy is inputCopy, acc is inputPID, d is
\* pidString.  strcat with the null pointer as its source is a crash.  When
\* strtok leaves inputCopy as it was, the loop's test stays true for good
\* and every round appends to inputPID, past the end of its 2049 bytes.
RECURSIVE ExpandLoop(_, _, _)
ExpandLoop(copy, acc, d) ==
  IF Strstr(copy) = 0 THEN [kind |-> "done", inputPID |-> acc]
  ELSE LET substring == SubSeq(copy, Strstr(copy), Len(copy))
           copyToken == Strtok(copy)
           substringToken == Strtok(substring)
           acc2 == acc \o copyToken.token \o d
                       \o (IF substringToken.null THEN << >>
                           ELSE substringToken.token)
       IN IF copyToken.null THEN [kind |-> "crash", inputPID |-> acc]
          ELSE IF copyToken.str = copy
          THEN [kind |-> "overrun", inputPID |-> acc2]
          ELSE ExpandLoop(copyToken.str, acc2, d)

\* The whole section: a line without "$$" is copied, any other goes
\* through the loop.
ExpandDollars(s, d) ==
  IF Strstr(s) = 0 THEN [kind |-> "done", inputPID |-> s]
  ELSE ExpandLoop(s, << >>, d)

\* ----------------------------------------------------------- statusShell
StatusLine(st, sg) ==
  IF st = 0 THEN <<"exit value", 0>>
  ELSE IF st = 1 THEN <<"exit value", 1>>
  ELSE <<"terminated by signal", sg>>

\* FgStatus without the store of WTERMSIG into processes->signal.
FgStatusNoSignal(st, sg, ws) ==
  IF WIFSIGNALED(ws)
  THEN [status |-> 2, signal |-> sg]
  ELSE [status |-> WEXITSTATUS(ws), signal |-> sg]

\* The status update after the blocking waitpid of a foreground child.
FgStatus(st, sg, ws) ==
  IF WIFSIGNALED(ws)
  THEN [status |-> 2, signal |-> WTERMSIG(ws)]
  ELSE [status |-> WEXITSTATUS(ws), signal |-> sg]

FgLines(ws) ==
  IF WIFSIGNALED(ws)
  THEN << <<"Child terminated with signal", WTERMSIG(ws)>> >>
  ELSE << >>

\* BgStatus without the WIFSIGNALED branch.
BgStatusExitOnly(st, sg, ws) ==
  [status |-> WEXITSTATUS(ws), signal |-> sg]

\* The status update of the polling loop for a terminated background PID.
BgStatus(st, sg, ws) ==
  IF WIFSIGNALED(ws)
  THEN [status |-> 2, signal |-> WTERMSIG(ws)]
  ELSE [status |-> WEXITSTATUS(ws), signal |-> sg]

BgLines(pid, ws) ==
  IF WIFSIGNALED(ws)
  THEN << <<"Process terminated with signal", pid, WTERMSIG(ws)>> >>
  ELSE << <<"Process ended with status", pid, WEXITSTATUS(ws)>> >>

\* ------------------------------------------------------------------ Init
\* The state on entry to shell()'s loop: main has set foreground to 0,
\* SIGINT to ignored and SIGTSTP to the handler; shell() has set status to
\* 0.  The struct is the process's first heap allocation (fresh zero
\* pages), so pidCount and signal start as 0.
Init ==
  /\ foreground = 0
  /\ status = 0
  /\ signal = 0
  /\ backgroundPids = << >>
  /\ pidCount = 0
  /\ sigintDisp = IGN
  /\ sigtstpDisp = HANDLER
  /\ pc = "prompt"
  /\ line = << >>
  /\ cmd = NoCmd
  /\ loop = 0
  /\ sourceFD = GARB
  /\ targetFD = GARB
  /\ newPid = 0
  /\ procs = [p \in Pids |-> NoProc]
  /\ out = << >>
  /\ lastFg = NoWs
  /\ expansion = NoExpansion

\* ----------------------------------------------------------- the shell
\* shell()'s prompt and getline(), then parseInput up to the choice of the
\* command to run.  The global flag is read here, when the trailing "&" is
\* classified.  A line that would launch one more background command than
\* the model tracks is not entered.
ReadLine(l) ==
  /\ pc = "prompt"
  /\ line' = l
  /\ IF IsComment(l[1])
     THEN /\ pc' = "reap"
          /\ cmd' = NoCmd
     ELSE IF ParseCrashes(l, 2)
     THEN /\ pc' = "crashed"
          /\ cmd' = NoCmd
     ELSE /\ pc' = "dispatch"
          /\ cmd' = ParseInput(l, foreground)
  /\ cmd'.ampersand = 1 => pidCount < MaxBg
  /\ lastFg' = IF l[1] = "status" THEN lastFg ELSE NoWs
  /\ out' = << >>
  /\ UNCHANGED expansion
  /\ UNCHANGED <<foreground, status, signal, backgroundPids, pidCount,
                 sigintDisp, sigtstpDisp, loop, sourceFD, targetFD, newPid,
                 procs>>

\* Kill without the signal.
KillNone(pr) == pr

\* kill(pid, SIGKILL) on one slot of the process table.
Kill(pr) ==
  IF pr.state \in {"running", "loop"} THEN Zombie(Signaled(SIGKILL)) ELSE pr

\* exitShell: SIGKILL to every stored PID; parseInput returns 1.
ExitShell ==
  /\ pc = "dispatch"
  /\ cmd.command = "exit"
  /\ procs' = [p \in Pids |->
                 IF \E k \in 1..pidCount : backgroundPids[k] = p
                 THEN Kill(procs[p]) ELSE procs[p]]
  /\ loop' = 1
  /\ pc' = "reap"
  /\ out' = << >>
  /\ UNCHANGED expansion
  /\ UNCHANGED <<foreground, status, signal, backgroundPids, pidCount,
                 sigintDisp, sigtstpDisp, line, cmd, sourceFD, targetFD,
                 newPid, lastFg>>

\* CdShell with a failed chdir recorded as status 1.
CdShellSetsStatus(ok) ==
  /\ pc = "dispatch"
  /\ cmd.command = "cd"
  /\ out' = IF Len(cmd.arguments) >= 2 /\ ~ok
            THEN << <<"Error finding this directory.">> >> ELSE << >>
  /\ status' = IF Len(cmd.arguments) >= 2 /\ ~ok THEN 1 ELSE status
  /\ pc' = "reap"
  /\ UNCHANGED expansion
  /\ UNCHANGED <<foreground, signal, backgroundPids, pidCount, sigintDisp,
                 sigtstpDisp, line, cmd, loop, sourceFD, targetFD, newPid,
                 procs, lastFg>>

\* cdShell: chdir to HOME or to arguments[1]; ok is chdir's outcome.
CdShell(ok) ==
  /\ pc = "dispatch"
  /\ cmd.command = "cd"
  /\ out' = IF Len(cmd.arguments) >= 2 /\ ~ok
            THEN << <<"Error finding this directory.">> >> ELSE << >>
  /\ pc' = "reap"
  /\ UNCHANGED expansion
  /\ UNCHANGED <<foreground, status, signal, backgroundPids, pidCount,
                 sigintDisp, sigtstpDisp, line, cmd, loop, sourceFD,
                 targetFD, newPid, procs, lastFg>>

\* statusShell.
StatusShell ==
  /\ pc = "dispatch"
  /\ cmd.command = "status"
  /\ out' = << StatusLine(status, signal) >>
  /\ pc' = "reap"
  /\ UNCHANGED expansion
  /\ UNCHANGED <<foreground, status, signal, backgroundPids, pidCount,
                 sigintDisp, sigtstpDisp, line, cmd, loop, sourceFD,
                 targetFD, newPid, procs, lastFg>>

IsExternal(c) == c.command \notin {NULL, "exit", "cd", "status"}

\* ------------------------------------------------------- otherCommands
\* sourceFD after the first open(): inOK is the outcome of the call, g the
\* uninitialised value of the local when no input file is named.
OpenSource(c, inOK, g) ==
  IF c.inputFile # NULL THEN (IF inOK THEN "in" ELSE BAD) ELSE g

\* targetFD after the second open().
OpenTarget(c, outOK) ==
  IF c.outputFile # NULL THEN (IF outOK THEN "out" ELSE BAD) ELSE GARB

\* The two tests that abandon the command before fork(): after the first
\* open, and after the second, where the code reads sourceFD again.
InputFails(c, src, tgt) == c.inputFile # NULL /\ src = BAD

OutputFails(c, src, tgt) == c.outputFile # NULL /\ src = BAD

\* otherCommands up to fork(): the redirect files are opened; a failure
\* found by the tests makes the function return with status 1.  The second
\* open is not reached when the first test returns.
Prepare(inOK, outOK, g) ==
  /\ pc = "dispatch"
  /\ IsExternal(cmd)
  /\ LET src == OpenSource(cmd, inOK, g)
         tgt == OpenTarget(cmd, outOK)
     IN IF InputFails(cmd, src, tgt)
        THEN /\ status' = 1
             /\ out' = << <<"Cannot open for input.", cmd.inputFile>> >>
             /\ sourceFD' = src
             /\ targetFD' = GARB
             /\ pc' = "reap"
        ELSE IF OutputFails(cmd, src, tgt)
        THEN /\ status' = 1
             /\ out' = << >>
             /\ sourceFD' = src
             /\ targetFD' = tgt
             /\ pc' = "reap"
        ELSE /\ status' = status
             /\ out' = << >>
             /\ sourceFD' = src
             /\ targetFD' = tgt
             /\ pc' = "fork"
  /\ UNCHANGED expansion
  /\ UNCHANGED <<foreground, signal, backgroundPids, pidCount, sigintDisp,
                 sigtstpDisp, line, cmd, loop, newPid, procs, lastFg>>

\* fork() fails: both signals are set to ignored, then newPid < 0 is found
\* and the function returns.
ForkFailed ==
  /\ pc = "fork"
  /\ newPid' = -1
  /\ sigintDisp' = IGN
  /\ sigtstpDisp' = IGN
  /\ status' = 1
  /\ out' = << <<"fork() failed.">> >>
  /\ pc' = "reap"
  /\ UNCHANGED expansion
  /\ UNCHANGED <<foreground, signal, backgroundPids, pidCount, line, cmd,
                 loop, sourceFD, targetFD, procs, lastFg>>

\* open("/dev/null/", ...): the path has a trailing slash and the null
\* device is not a directory, so the call fails.
OpenDevNull == BAD

\* The descriptors after the background substitution that follows fork().
SubstSource(c, src) ==
  IF c.ampersand = 1 /\ c.outputFile = NULL THEN OpenDevNull ELSE src

SubstTarget(c, tgt) ==
  IF c.ampersand = 1 /\ c.inputFile = NULL THEN OpenDevNull ELSE tgt

\* ChildSigint without the test of the ampersand.
ChildSigintAlwaysDefault(c) == DFL

\* The child's disposition of SIGINT when it reaches execvp.
ChildSigint(c) == IF c.ampersand = 0 THEN DFL ELSE IGN

\* otherCommands in the child, from the return of fork() to the end of the
\* branch: the substitution, the sigaction calls, dup2 and execvp.  found
\* is the outcome of execvp.  dup2 fails on a descriptor of -1, and the
\* child then returns from otherCommands into the loop of shell(); a
\* failed execvp ends in exit(1).
Child(c, src, tgt, found) ==
  LET s == SubstSource(c, src)
      t == SubstTarget(c, tgt)
  IN IF (c.inputFile # NULL /\ s = BAD) \/ (c.outputFile # NULL /\ t = BAD)
     THEN [state |-> "loop", sigint |-> ChildSigint(c), ws |-> NoWs]
     ELSE IF found
     THEN [state |-> "running", sigint |-> ChildSigint(c), ws |-> NoWs]
     ELSE Zombie(Exited(1))

\* What the child's standard input and output are bound to when it reaches
\* execvp: dup2 is called only for a stream whose file is named, with the
\* descriptor as it is after the substitution; a stream whose file is not
\* named is not touched and stays as inherited from the shell.
INHERITED == "inherited"

ChildStdin(c, src) == IF c.inputFile # NULL THEN src ELSE INHERITED

ChildStdout(c, tgt) == IF c.outputFile # NULL THEN tgt ELSE INHERITED

\* The parent's disposition of SIGTSTP when its branch is done.
ParentTstp == HANDLER

\* ParentWait without the blocking waitpid.
ParentWaitNoBlock(p, found) ==
  /\ pc = "fork"
  /\ cmd.ampersand = 0
  /\ procs[p].state = "free"
  /\ procs' = [procs EXCEPT ![p] = Child(cmd, sourceFD, targetFD, found)]
  /\ newPid' = p
  /\ sourceFD' = SubstSource(cmd, sourceFD)
  /\ targetFD' = SubstTarget(cmd, targetFD)
  /\ sigintDisp' = IGN
  /\ sigtstpDisp' = ParentTstp
  /\ out' = << >>
  /\ pc' = "reap"
  /\ UNCHANGED expansion
  /\ UNCHANGED <<foreground, status, signal, backgroundPids, pidCount, line,
                 cmd, loop, lastFg>>

\* fork() succeeds for a foreground command.  The child p runs its branch;
\* the parent sets both signals to ignored, then SIGTSTP back to the
\* handler, and blocks in waitpid.
ParentWait(p, found) ==
  /\ pc = "fork"
  /\ cmd.ampersand = 0
  /\ procs[p].state = "free"
  /\ procs' = [procs EXCEPT ![p] = Child(cmd, sourceFD, targetFD, found)]
  /\ newPid' = p
  /\ sourceFD' = SubstSource(cmd, sourceFD)
  /\ targetFD' = SubstTarget(cmd, targetFD)
  /\ sigintDisp' = IGN
  /\ sigtstpDisp' = ParentTstp
  /\ out' = << >>
  /\ pc' = "wait"
  /\ UNCHANGED expansion
  /\ UNCHANGED <<foreground, status, signal, backgroundPids, pidCount, line,
                 cmd, loop, lastFg>>

\* waitpid(newPid, &childStatus, 0) returns: the child is waited for and
\* the status is updated.
WaitForeground ==
  /\ pc = "wait"
  /\ procs[newPid].state = "zombie"
  /\ LET ws == procs[newPid].ws
         r == FgStatus(status, signal, ws)
     IN /\ status' = r.status
        /\ signal' = r.signal
        /\ out' = FgLines(ws)
        /\ lastFg' = ws
  /\ procs' = [procs EXCEPT ![newPid] = NoProc]
  /\ pc' = "reap"
  /\ UNCHANGED expansion
  /\ UNCHANGED <<foreground, backgroundPids, pidCount, sigintDisp,
                 sigtstpDisp, line, cmd, loop, sourceFD, targetFD, newPid>>

\* fork() succeeds for a background command.  The child p runs its branch;
\* the parent sets both signals to ignored, prints and stores the PID, and
\* sets SIGTSTP back to the handler.  The store is not guarded: with the
\* table full it lands past the last entry, where the struct holds
\* pidCount and status.  What the count then is depends on the build: the
\* old count plus one where the compiler keeps it in a register, the
\* stored PID plus one where it is read back from memory; status is
\* overwritten with 0 where a pointer is wider than an int.
ParentDetach(p, found) ==
  /\ pc = "fork"
  /\ cmd.ampersand # 0
  /\ procs[p].state = "free"
  /\ procs' = [procs EXCEPT ![p] = Child(cmd, sourceFD, targetFD, found)]
  /\ newPid' = p
  /\ sourceFD' = SubstSource(cmd, sourceFD)
  /\ targetFD' = SubstTarget(cmd, targetFD)
  /\ out' = << <<"Background process is", p>> >>
  /\ IF pidCount < TableSize
     THEN /\ backgroundPids' = Append(backgroundPids, p)
          /\ pidCount' = pidCount + 1
          /\ status' = status
     ELSE /\ backgroundPids' = backgroundPids
          /\ pidCount' \in {pidCount + 1, p + 1}
          /\ status' \in {status, 0}
  /\ sigintDisp' = IGN
  /\ sigtstpDisp' = ParentTstp
  /\ pc' = "reap"
  /\ UNCHANGED expansion
  /\ UNCHANGED <<foreground, signal, line, cmd, loop, lastFg>>

\* --------------------------------------------------- the polling loop
\* Poll without the calls of waitpid.
RECURSIVE PollNone(_, _, _)
PollNone(k, pids, st) == st

\* shell()'s loop over backgroundPids[0 .. pidCount-1], from entry k on:
\* waitpid(pid, .., WNOHANG) returns the PID only for a terminated child
\* that has not been waited for; the child is then waited for, the status
\* updated and a line printed.  st carries status, signal, the process
\* table and the lines printed so far.
RECURSIVE Poll(_, _, _)
Poll(k, pids, st) ==
  IF k > Len(pids) THEN st
  ELSE LET pid == pids[k]
           ws == st.procs[pid].ws
           r == BgStatus(st.status, st.signal, ws)
       IN IF st.procs[pid].state = "zombie"
          THEN Poll(k + 1, pids,
                    [status |-> r.status, signal |-> r.signal,
                     procs |-> [st.procs EXCEPT ![pid] = NoProc],
                     out |-> st.out \o BgLines(pid, ws)])
          ELSE Poll(k + 1, pids, st)

\* The polling loop of one cycle, then the while test of shell().
Reaper ==
  /\ pc = "reap"
  /\ LET r == Poll(1, backgroundPids,
                   [status |-> status, signal |-> signal, procs |-> procs,
                    out |-> << >>])
     IN /\ status' = r.status
        /\ signal' = r.signal
        /\ procs' = r.procs
        /\ out' = r.out
        /\ lastFg' = IF r.out # << >> \/ ~IsExternal(cmd)
                     THEN NoWs ELSE lastFg
  /\ pc' = IF loop = 0 THEN "prompt" ELSE "exited"
  /\ line' = << >>
  /\ cmd' = NoCmd
  /\ sourceFD' = GARB
  /\ targetFD' = GARB
  /\ newPid' = 0
  /\ UNCHANGED expansion
  /\ UNCHANGED <<foreground, backgroundPids, pidCount, sigintDisp,
                 sigtstpDisp, loop>>

\* ------------------------------------------------------- handle_SIGTSTP
\* Suspend with a handler that also resets the status.
SuspendResetsStatus ==
  /\ pc \notin {"exited", "crashed", "killed"}
  /\ IF sigtstpDisp = HANDLER
     THEN /\ IF foreground = 0 THEN foreground' = 1 ELSE foreground' = 0
          /\ status' = 0
     ELSE UNCHANGED <<foreground, status>>
  /\ UNCHANGED expansion
  /\ UNCHANGED <<signal, backgroundPids, pidCount, sigintDisp,
                 sigtstpDisp, pc, line, cmd, loop, sourceFD, targetFD,
                 newPid, procs, out, lastFg>>

\* SIGTSTP is delivered to the shell.  The handler runs only while it is
\* installed; an ignored signal is discarded.  The handler's message goes
\* out by write(), not through stdio, and is not part of out.
Suspend ==
  /\ pc \notin {"exited", "crashed", "killed"}
  /\ IF sigtstpDisp = HANDLER
     THEN IF foreground = 0 THEN foreground' = 1 ELSE foreground' = 0
     ELSE UNCHANGED foreground
  /\ UNCHANGED expansion
  /\ UNCHANGED <<status, signal, backgroundPids, pidCount, sigintDisp,
                 sigtstpDisp, pc, line, cmd, loop, sourceFD, targetFD,
                 newPid, procs, out, lastFg>>

\* ---------------------------------------------------------- the children
\* A child ends: it exits with a code, or a signal it does not ignore
\* terminates it.
Terminate(p, ws) ==
  /\ procs[p].state \in {"running", "loop"}
  /\ (ws = Signaled(SIGINT)) => procs[p].sigint = DFL
  /\ procs' = [procs EXCEPT ![p] = Zombie(ws)]
  /\ UNCHANGED expansion
  /\ UNCHANGED <<shellVars, out, lastFg>>

\* Ctrl-C: the terminal sends SIGINT to the shell and to every child of
\* its process group.  A process that ignores it is unaffected.
Interrupt ==
  /\ pc \notin {"exited", "crashed", "killed"}
  /\ pc' = IF sigintDisp = DFL THEN "killed" ELSE pc
  /\ procs' = [p \in Pids |->
                 IF procs[p].state \in {"running", "loop"}
                    /\ procs[p].sigint = DFL
                 THEN Zombie(Signaled(SIGINT))
                 ELSE procs[p]]
  /\ UNCHANGED expansion
  /\ UNCHANGED <<foreground, status, signal, backgroundPids, pidCount,
                 sigintDisp, sigtstpDisp, line, cmd, loop, sourceFD,
                 targetFD, newPid, out, lastFg>>

WaitStatuses == {Exited(n) : n \in ExitCodes} \cup {Signaled(s) : s \in Signals}

Next ==
  \/ \E l \in Lines : ReadLine(l)
  \/ ExitShell
  \/ \E ok \in BOOLEAN : CdShell(ok)
  \/ StatusShell
  \/ \E inOK \in BOOLEAN, outOK \in BOOLEAN, g \in {BAD, GARB} :
       Prepare(inOK, outOK, g)
  \/ ForkFailed
  \/ \E p \in Pids, found \in BOOLEAN : ParentWait(p, found)
  \/ WaitForeground
  \/ \E p \in Pids, found \in BOOLEAN : ParentDetach(p, found)
  \/ Reaper
  \/ Suspend
  \/ \E p \in Pids, ws \in WaitStatuses : Terminate(p, ws)
  \/ Interrupt

Spec == Init /\ [][Next]_vars

\* The shell is one sequential process: a step of its own that is enabled
\* is taken.  These are all its steps but the two that block: getline at
\* the prompt and the waitpid on the foreground child.
ShellStep ==
  \/ ExitShell
  \/ \E ok \in BOOLEAN : CdShell(ok)
  \/ StatusShell
  \/ \E inOK \in BOOLEAN, outOK \in BOOLEAN, g \in {BAD, GARB} :
       Prepare(inOK, outOK, g)
  \/ ForkFailed
  \/ \E p \in Pids, found \in BOOLEAN : ParentWait(p, found)
  \/ \E p \in Pids, found \in BOOLEAN : ParentDetach(p, found)
  \/ Reaper

\* Runs in which the user keeps entering lines: getline returns with a
\* line, the foreground command of a cycle ends, and waitpid then returns.
KeepsEntering ==
  /\ WF_vars(\E l \in Lines : ReadLine(l))
  /\ WF_vars(\E p \in Pids, ws \in WaitStatuses :
               IsForeground(p) /\ Terminate(p, ws))
  /\ WF_vars(WaitForeground)

FairSpec == Spec /\ WF_vars(ShellStep) /\ KeepsEntering

\* The parser on its own: every line of up to MaxTokens tokens, read in
\* either mode.
ParseInit ==
  /\ foreground \in {0, 1}
  /\ status = 0
  /\ signal = 0
  /\ backgroundPids = << >>
  /\ pidCount = 0
  /\ sigintDisp = IGN
  /\ sigtstpDisp = HANDLER
  /\ pc = "prompt"
  /\ line = << >>
  /\ cmd = NoCmd
  /\ loop = 0
  /\ sourceFD = GARB
  /\ targetFD = GARB
  /\ newPid = 0
  /\ procs = [p \in Pids |-> NoProc]
  /\ out = << >>
  /\ lastFg = NoWs
  /\ expansion = NoExpansion

ParseNext == \E l \in AllLines : ReadLine(l)

ParseSpec == ParseInit /\ [][ParseNext]_vars

\* The "$$" section on its own: every line of up to MaxChars characters,
\* with each PID string.
ExpandInit ==
  /\ foreground = 0
  /\ status = 0
  /\ signal = 0
  /\ backgroundPids = << >>
  /\ pidCount = 0
  /\ sigintDisp = IGN
  /\ sigtstpDisp = HANDLER
  /\ pc = "prompt"
  /\ line = << >>
  /\ cmd = NoCmd
  /\ loop = 0
  /\ sourceFD = GARB
  /\ targetFD = GARB
  /\ newPid = 0
  /\ procs = [p \in Pids |-> NoProc]
  /\ out = << >>
  /\ lastFg = NoWs
  /\ expansion \in {[inputCopy |-> s, pidString |-> d, inputPID |-> << >>,
                      kind |-> "none"] : s \in CharLines, d \in PidStrings}

\* parseInput from the calloc of inputPID to the end of the while loop.
Expand ==
  /\ pc = "prompt"
  /\ LET r == ExpandDollars(expansion.inputCopy, expansion.pidString)
     IN expansion' = [expansion EXCEPT !.inputPID = r.inputPID,
                                       !.kind = r.kind]
  /\ pc' = "expanded"
  /\ UNCHANGED <<foreground, status, signal, backgroundPids, pidCount,
                 sigintDisp, sigtstpDisp, line, cmd, loop, sourceFD,
                 targetFD, newPid, procs, out, lastFg>>

ExpandNext == Expand

ExpandSpec == ExpandInit /\ [][ExpandNext]_vars

\* The registration of a background PID on its own: the shell is about to
\* fork for the background command "ls &" with any number of entries, up
\* to all of them, already stored (PIDs come round again as the OS reuses
\* them) and every earlier child waited for.
TableInit ==
  /\ foreground = 0
  /\ status \in {0, 1}
  /\ signal = 0
  /\ pidCount \in 0..TableSize
  /\ backgroundPids = [k \in 1..pidCount |-> ((k - 1) % MaxPid) + 1]
  /\ sigintDisp = IGN
  /\ sigtstpDisp = HANDLER
  /\ pc = "fork"
  /\ line = <<"ls", "&">>
  /\ cmd = ParseInput(<<"ls", "&">>, 0)
  /\ loop = 0
  /\ sourceFD = GARB
  /\ targetFD = GARB
  /\ newPid = 0
  /\ procs = [p \in Pids |-> NoProc]
  /\ out = << >>
  /\ lastFg = NoWs
  /\ expansion = NoExpansion

TableNext == \E p \in Pids, found \in BOOLEAN : ParentDetach(p, found)

TableSpec == TableInit /\ [][TableNext]_vars

TypeOK ==
  /\ foreground \in {0, 1}
  /\ status \in ExitCodes \cup {2}
  /\ pidCount = Len(backgroundPids)
  /\ pidCount <= MaxBg

\* ------------------------------------------------------------ properties
Tracked(p) == \E k \in 1..pidCount : backgroundPids[k] = p

\* The number of "Process <pid> ..." lines for p among the lines ls.
ProcessLines(ls, p) ==
  Cardinality({k \in 1..Len(ls) :
                 /\ ls[k][1] \in {"Process terminated with signal",
                                  "Process ended with status"}
                 /\ ls[k][2] = p})

\* fork() has returned a new child in this step.
ChildCreated ==
  \E p \in Pids : procs[p].state = "free" /\ procs'[p].state # "free"

NoBackgroundLine(ls) ==
  \A k \in 1..Len(ls) : ls[k][1] # "Background process is"

\* C1: a foreground command exits with code n, nothing is observed by the
\* polling loop, and the next line is status: status prints "exit value n".
C1_ExitValueReported ==
  (pc = "reap" /\ cmd.command = "status" /\ lastFg.kind = "exit")
    => out = << <<"exit value", lastFg.val>> >>

\* C2: a foreground command is terminated by signal s, nothing is observed
\* by the polling loop, and the next line is status: status prints
\* "terminated by signal s".
C2_SignalReported ==
  (pc = "reap" /\ cmd.command = "status" /\ lastFg.kind = "sig")
    => out = << <<"terminated by signal", lastFg.val>> >>

C2_Witness ==
  /\ pc = "reap"
  /\ cmd.command = "status"
  /\ lastFg = Signaled(SIGINT)
  /\ out = << <<"terminated by signal", SIGINT>> >>

\* C3: the status starts as exit value 0, and a built-in (cd, status, exit),
\* the launch of a background command, and a polling loop that finds every
\* stored PID still running (or already waited for) leave status and
\* signal, and so the line status prints, as they were.
C3_StatusFrame ==
  /\ status = 0
  /\ StatusLine(status, signal) = <<"exit value", 0>>
  /\ [][ ( \/ (pc = "dispatch" /\ ~IsExternal(cmd))
           \/ (pc = "fork" /\ pidCount' = pidCount + 1)
           \/ (pc = "reap" /\ \A k \in 1..pidCount :
                                procs[backgroundPids[k]].state # "zombie") )
         => (status' = status /\ signal' = signal) ]_vars

C3_Witness ==
  /\ pc = "reap"
  /\ cmd.command = "status"
  /\ out = << <<"exit value", 1>> >>
  /\ \E k \in 1..pidCount : procs[backgroundPids[k]].state = "running"

\* The status a run of foreground completions would leave, taken over the
\* stored PIDs from entry k on that are terminated and not yet waited for.
RECURSIVE AsForeground(_, _, _)
AsForeground(k, seen, r) ==
  IF k > pidCount THEN r
  ELSE LET p == backgroundPids[k]
       IN IF p \notin seen /\ procs[p].state = "zombie"
          THEN AsForeground(k + 1, seen \cup {p},
                            FgStatus(r.status, r.signal, procs[p].ws))
          ELSE AsForeground(k + 1, seen, r)

C5_ObservedPidRemoved ==
  pc = "prompt" =>
    \A k \in 1..pidCount : procs[backgroundPids[k]].state # "free"

\* The last token of the line is a "&" that the tokenizing loop meets as a
\* token of its own, not as the file name of a "<" or ">" before it.
RECURSIVE TrailingAmpersand(_, _)
TrailingAmpersand(toks, k) ==
  IF k > Len(toks) THEN FALSE
  ELSE IF k = Len(toks) THEN toks[k] = "&"
  ELSE IF toks[k] \in {"<", ">"} THEN TrailingAmpersand(toks, k + 2)
  ELSE TrailingAmpersand(toks, k + 1)

\* C6 as stated: while foreground-only mode is on no command is detached:
\* no PID is stored and no "Background process is" line is printed.
C6_NoDetachInForegroundOnly ==
  [][ (pc = "fork" /\ foreground = 1) =>
        /\ pidCount' = pidCount
        /\ backgroundPids' = backgroundPids
        /\ NoBackgroundLine(out') ]_vars

\* C6 amended: the mode counts as it is when parseInput classifies the
\* trailing "&".  A line ending in such a "&" gets ampersand = 1 exactly if
\* the flag is 0 at that moment, only such a line gets it, and the command is
\* not changed by a later signal; with ampersand = 0 no PID is stored, no
\* "Background process is" line is printed, and once the child exists the
\* shell stays in waitpid until that child has terminated.
C6_ModeReadAtParse ==
  /\ [](cmd.ampersand = 1 => TrailingAmpersand(line, 2))
  /\ [][ /\ (pc = "prompt" /\ pc' = "dispatch"
                /\ TrailingAmpersand(line', 2))
            => (cmd'.ampersand = 1 <=> foreground = 0)
         /\ (pc \in {"dispatch", "fork", "wait"}) => cmd' = cmd
         /\ (pc = "fork" /\ cmd.ampersand = 0) =>
              /\ pidCount' = pidCount
              /\ backgroundPids' = backgroundPids
              /\ NoBackgroundLine(out')
              /\ ChildCreated => pc' = "wait"
         /\ (pc = "wait" /\ pc' # "wait") =>
              procs[newPid].state = "zombie" ]_vars

C6_Witness ==
  /\ pc = "wait"
  /\ line = <<"ls", "&">>
  /\ cmd.ampersand = 0
  /\ foreground = 0
  /\ pidCount = 0

\* The arguments of a line when "&" is special only as the last token.
RECURSIVE ArgumentsOf(_, _)
ArgumentsOf(toks, k) ==
  IF k > Len(toks) THEN << >>
  ELSE IF toks[k] \in {"<", ">"} THEN ArgumentsOf(toks, k + 2)
  ELSE IF toks[k] = "&" /\ k = Len(toks) THEN << >>
  ELSE <<toks[k]>> \o ArgumentsOf(toks, k + 1)

\* C7: a "&" that is not the last token is appended to arguments at its
\* position, does not set ampersand, and the tokens after it are
\* classified as usual.
C7_AmpersandKept ==
  pc = "dispatch" =>
    /\ cmd.arguments = <<line[1]>> \o ArgumentsOf(line, 2)
    /\ cmd.ampersand = 1 => line[Len(line)] = "&"

\* C8: the shell ignores SIGINT and is never killed by it; a child with
\* the default disposition is the foreground child; a child that is not
\* the foreground child is never terminated by SIGINT.
C8_InterruptIgnored ==
  /\ sigintDisp = IGN
  /\ pc # "killed"
  /\ \A p \in Pids :
       /\ procs[p].sigint = DFL => IsForeground(p)
       /\ (procs[p].state \in {"running", "loop"} /\ ~IsForeground(p))
            => procs[p].sigint = IGN
       /\ (procs[p].state = "zombie" /\ procs[p].ws = Signaled(SIGINT))
            => IsForeground(p)

C8_Witness ==
  \E p \in Pids, q \in Pids :
    /\ IsForeground(p)
    /\ procs[p].state = "zombie"
    /\ procs[p].ws = Signaled(SIGINT)
    /\ Tracked(q)
    /\ procs[q].state = "running"

\* C9: when a child is created the shell's disposition of SIGTSTP is
\* "ignored", and it is the handler again once the parent's branch is
\* done.
C9_IgnoredAtFork ==
  [][ (pc = "fork" /\ ChildCreated) =>
        (sigtstpDisp = IGN /\ sigtstpDisp' = HANDLER) ]_vars

\* C10: the shell does not reach fork() with a redirect file that failed
\* to open, be it the input or the output file.
C10_FailedOpenAbandons ==
  pc = "fork" =>
    /\ ~(cmd.inputFile # NULL /\ sourceFD = BAD)
    /\ ~(cmd.outputFile # NULL /\ targetFD = BAD)

\* A descriptor open on the null device.
NullDevice == "/dev/null"

\* C11: a background child that reaches execvp has every standard stream
\* whose file is not named bound to the null device; a foreground child
\* has such a stream as inherited.
C11_NullDeviceBound ==
  [][ (pc = "fork" /\ ChildCreated /\ procs'[newPid'].state = "running") =>
        /\ cmd.inputFile = NULL =>
             ChildStdin(cmd, sourceFD') =
               IF cmd.ampersand = 1 THEN NullDevice ELSE INHERITED
        /\ cmd.outputFile = NULL =>
             ChildStdout(cmd, targetFD') =
               IF cmd.ampersand = 1 THEN NullDevice ELSE INHERITED ]_vars

\* C12: no child is ever in the loop of shell(): a child either runs the
\* program it was created for or has terminated.
C12_ChildNeverInLoop ==
  \A p \in Pids : procs[p].state # "loop"

\* C13: a child created for a foreground command puts the shell into the
\* blocking waitpid on that child; while the shell is there no other child
\* is created, no line is read and nothing is printed, whatever signals
\* arrive, and the shell leaves only when that child has terminated, which
\* waits for it.  A line is read only at the prompt, and the prompt is
\* reached only from the polling loop.  So at most one child has the
\* foreground disposition of SIGINT, and it is the one waited for.
C13_ForegroundBlocks ==
  /\ [](pc = "wait" => procs[newPid].state # "free")
  /\ [](Cardinality({p \in Pids : procs[p].sigint = DFL}) <= 1)
  /\ [][ /\ (pc = "fork" /\ cmd.ampersand = 0 /\ ChildCreated) =>
              /\ pc' = "wait"
              /\ procs[newPid'].state = "free"
         /\ pc = "wait" =>
              /\ ~ChildCreated
              /\ pc' = "wait" =>
                   (newPid' = newPid /\ line' = line /\ out' = out)
              /\ pc' # "wait" =>
                   /\ procs[newPid].state = "zombie"
                   /\ procs'[newPid].state = "free"
                   /\ pc' = "reap"
         /\ (line' # line /\ line' # << >>) => pc = "prompt"
         /\ (pc' = "prompt" /\ pc # "prompt") => pc = "reap" ]_vars

C13_Witness ==
  /\ pc = "wait"
  /\ procs[newPid].state = "running"
  /\ line = <<"ls", "<", "f">>
  /\ foreground = 1
  /\ sigtstpDisp = HANDLER

\* C14: once exitShell has run (parseInput has returned 1), and so when the
\* shell has terminated, no child of the shell is running: every stored
\* PID that was running has been sent SIGKILL.
C14_ExitKillsBackground ==
  (loop = 1 \/ pc = "exited") =>
    /\ loop = 1
    /\ \A p \in Pids : procs[p].state \notin {"running", "loop"}

C14_Witness ==
  /\ pc = "reap"
  /\ loop = 1
  /\ cmd.command = "exit"
  /\ \E p \in Pids : Tracked(p) /\ procs[p] = Zombie(Signaled(SIGKILL))

\* The shell process is alive.
ShellAlive == pc \notin {"exited", "crashed", "killed"}

\* C15: a step that changes the flag flips it, is taken with the handler
\* installed, and changes nothing else: not the stored PIDs, not the
\* status, not the shell's position, so it is no step of the loop, the
\* executor or the polling loop; and whenever the shell is alive with the
\* handler installed such a step can be taken.
C15_OnlyHandlerToggles ==
  /\ [][ foreground' # foreground =>
          /\ sigtstpDisp = HANDLER
          /\ foreground' = 1 - foreground
          /\ UNCHANGED <<status, signal, backgroundPids, pidCount,
                         sigintDisp, sigtstpDisp, pc, line, cmd, loop,
                         sourceFD, targetFD, newPid, procs, out,
                         lastFg>> ]_vars
  /\ []((ShellAlive /\ sigtstpDisp = HANDLER) =>
         ENABLED (Next /\ foreground' = 1 - foreground
                       /\ UNCHANGED <<status, signal, backgroundPids,
                                      pidCount, pc, procs>>))

C15_Witness ==
  /\ foreground = 1
  /\ pc = "prompt"
  /\ status = 1
  /\ pidCount = 1
  /\ procs[backgroundPids[1]].state = "running"

\* A stored PID whose child has terminated and has not been waited for,
\* the foreground child aside.
BgZombie(p) == Tracked(p) /\ procs[p].state = "zombie" /\ ~IsForeground(p)

\* The first entry of the table that holds p.
FirstIndex(p) ==
  CHOOSE k \in 1..pidCount :
    backgroundPids[k] = p /\ \A j \in 1..(k - 1) : backgroundPids[j] # p

RECURSIVE Expected(_, _, _)
Expected(s, i, d) ==
  IF i > Len(s) THEN << >>
  ELSE IF i < Len(s) /\ s[i] = "$" /\ s[i + 1] = "$"
  THEN d \o Expected(s, i + 2, d)
  ELSE <<s[i]>> \o Expected(s, i + 1, d)

\* C17: the "$$" section ends normally and leaves in inputPID the line
\* with each "$$" of the left-to-right scan replaced by the PID string
\* and every other character unchanged.
C17_MarkersExpanded ==
  pc = "expanded" =>
    /\ expansion.kind = "done"
    /\ expansion.inputPID =
         Expected(expansion.inputCopy, 1, expansion.pidString)

\* C18: whenever the shell is at the prompt its disposition of SIGTSTP is
\* the handler.
C18_HandlerAtPrompt ==
  pc = "prompt" => sigtstpDisp = HANDLER

\* C19: when exitShell is about to run, every stored PID (each is sent
\* SIGKILL) is a child of the shell that has not been waited for.
C19_KillOnlyOwnChildren ==
  (pc = "dispatch" /\ cmd.command = "exit") =>
    \A p \in Pids : Tracked(p) => procs[p].state # "free"

\* C20: pidCount never exceeds the number of entries of backgroundPids.
C20_WithinTable ==
  pidCount <= TableSize

====
